---------------------------- MODULE Spec2Model ----------------------------
(***************************************************************************)
(* A model of the dataset upload / browse service (storage.py, upload.py,  *)
(* browse.py).  Python strings are sequences of one-character strings, a   *)
(* pathlib path is the sequence of its parts, the filesystem is a function *)
(* from locations to entries, and every HTTP handler is one action.        *)
(***************************************************************************)
EXTENDS Integers, Sequences, FiniteSets, TLC

VARIABLES
    fs,        \* the filesystem: location (sequence of parts) -> entry
    db,        \* the datasets table: a set of Dataset rows
    clock,     \* the wall clock read by Dataset.uploaded_at's default
    budget,    \* number of /upload requests the model still explores
    plants,    \* number of files put on disk by something else than /upload
    pillow,    \* whether "from PIL import Image" succeeds in this deployment
    req,       \* the request served last, with what its environment did (decoder
               \* outcomes, directory listing order)
    resp       \* its response

vars == <<fs, db, clock, budget, plants, pillow, req, resp>>

-----------------------------------------------------------------------------
(* Bounds of the model *)

MaxUploads == 2
MaxPlants == 1
MaxFiles == 2
MaxSize == 2
MaxPathLen == 3

-----------------------------------------------------------------------------
(* Strings *)

NUL == "NUL"   \* stands for the character "\x00"

\* Code points of the characters the model uses (Python compares strings by them).
CodePoint(c) ==
    CASE c = NUL -> 0
      [] c = "." -> 46
      [] c = "/" -> 47
      [] c = "1" -> 49
      [] c = "A" -> 65
      [] c = "B" -> 66
      [] c = "D" -> 68
      [] c = "S" -> 83
      [] c = "T" -> 84
      [] c = "\\" -> 92
      [] c = "_" -> 95
      [] c = "a" -> 97
      [] c = "b" -> 98
      [] c = "d" -> 100
      [] c = "e" -> 101
      [] c = "g" -> 103
      [] c = "h" -> 104
      [] c = "i" -> 105
      [] c = "k" -> 107
      [] c = "l" -> 108
      [] c = "m" -> 109
      [] c = "n" -> 110
      [] c = "o" -> 111
      [] c = "p" -> 112
      [] c = "q" -> 113
      [] c = "r" -> 114
      [] c = "s" -> 115
      [] c = "t" -> 116
      [] c = "u" -> 117
      [] c = "w" -> 119
      [] c = "x" -> 120

\* str.lower() on one character
LowerChar(c) ==
    CASE c = "A" -> "a"
      [] c = "B" -> "b"
      [] c = "D" -> "d"
      [] c = "S" -> "s"
      [] c = "T" -> "t"
      [] OTHER -> c

Lower(s) == [i \in 1..Len(s) |-> LowerChar(s[i])]

\* s < t for Python strings (lexicographic by code point)
RECURSIVE StrLess(_, _)
StrLess(s, t) ==
    IF t = <<>> THEN FALSE
    ELSE IF s = <<>> THEN TRUE
    ELSE IF CodePoint(s[1]) # CodePoint(t[1]) THEN CodePoint(s[1]) < CodePoint(t[1])
    ELSE StrLess(Tail(s), Tail(t))

StrLeq(s, t) == s = t \/ StrLess(s, t)

StartsWith(s, pre) == Len(s) >= Len(pre) /\ SubSeq(s, 1, Len(pre)) = pre

EndsWith(s, suf) ==
    Len(s) >= Len(suf) /\ SubSeq(s, Len(s) - Len(suf) + 1, Len(s)) = suf

Contains(s, c) == \E i \in 1..Len(s) : s[i] = c

\* str.replace(old, new) for single characters
Replace(s, old, new) == [i \in 1..Len(s) |-> IF s[i] = old THEN new ELSE s[i]]

\* str.split(sep) for a single-character separator
RECURSIVE Split(_, _)
Split(s, sep) ==
    IF ~Contains(s, sep) THEN <<s>>
    ELSE LET i == CHOOSE k \in 1..Len(s) :
                      s[k] = sep /\ \A j \in 1..(k - 1) : s[j] # sep
         IN  <<SubSeq(s, 1, i - 1)>> \o Split(SubSeq(s, i + 1, Len(s)), sep)

\* sep.join(parts)
RECURSIVE Join(_, _)
Join(parts, sep) ==
    IF parts = <<>> THEN <<>>
    ELSE IF Len(parts) = 1 THEN parts[1]
    ELSE parts[1] \o <<sep>> \o Join(Tail(parts), sep)

RECURSIVE SelectSeqNonTrivial(_)
SelectSeqNonTrivial(segs) ==
    IF segs = <<>> THEN <<>>
    ELSE IF segs[1] = <<>> \/ segs[1] = <<".">> THEN SelectSeqNonTrivial(Tail(segs))
    ELSE <<segs[1]>> \o SelectSeqNonTrivial(Tail(segs))

-----------------------------------------------------------------------------
(* pathlib on POSIX.  A path is the sequence of its parts; an absolute path *)
(* has its root ("/" or "//") as first part.                               *)

\* posixpath.splitroot: the root of a path string ("", "/" or "//")
PosixRoot(s) ==
    IF ~StartsWith(s, <<"/">>) THEN <<>>
    ELSE IF StartsWith(s, <<"/", "/">>) /\ ~StartsWith(s, <<"/", "/", "/">>)
         THEN <<"/", "/">>
    ELSE <<"/">>

\* PurePosixPath(s).parts: empty and "." segments are dropped by the parser
PosixParts(s) ==
    (IF PosixRoot(s) = <<>> THEN <<>> ELSE <<PosixRoot(s)>>)
        \o SelectSeqNonTrivial(Split(s, "/"))

IsAbsolute(p) == p # <<>> /\ StartsWith(p[1], <<"/">>)

\* a / b
JoinPath(a, b) == IF IsAbsolute(b) THEN b ELSE a \o b

\* str(path)
PathStr(p) ==
    IF p = <<>> THEN <<".">>
    ELSE IF IsAbsolute(p) THEN p[1] \o Join(Tail(p), "/")
    ELSE Join(p, "/")

\* path.name
PathName(p) == IF p = <<>> \/ (Len(p) = 1 /\ IsAbsolute(p)) THEN <<>> ELSE p[Len(p)]

\* path.parent
PathParent(p) == IF Len(p) <= 1 THEN (IF IsAbsolute(p) THEN p ELSE <<>>) ELSE SubSeq(p, 1, Len(p) - 1)

IsPrefix(a, b) == Len(a) <= Len(b) /\ SubSeq(b, 1, Len(a)) = a

\* path.relative_to(root), for a path under root
RelativeTo(p, root) == SubSeq(p, Len(root) + 1, Len(p))

\* path.suffix: from the last "." of the name, unless the name starts or ends there
Suffix(p) ==
    LET n == PathName(p)
        dots == {i \in 1..Len(n) : n[i] = "."}
    IN  IF dots = {} THEN <<>>
        ELSE LET i == CHOOSE k \in dots : \A j \in dots : j <= k
             IN  IF i = 1 \/ i = Len(n) THEN <<>> ELSE SubSeq(n, i, Len(n))

\* p < q for paths (pathlib compares the parts tuples)
RECURSIVE PathLess(_, _)
PathLess(p, q) ==
    IF q = <<>> THEN FALSE
    ELSE IF p = <<>> THEN TRUE
    ELSE IF p[1] # q[1] THEN StrLess(p[1], q[1])
    ELSE PathLess(Tail(p), Tail(q))

-----------------------------------------------------------------------------
(* storage.py *)

S_DS_Store == <<".", "D", "S", "_", "S", "t", "o", "r", "e">>
S_Thumbs_db == <<"T", "h", "u", "m", "b", "s", ".", "d", "b">>
S_data == <<"d", "a", "t", "a">>
S_raw == <<"r", "a", "w">>

BASE_PATH == <<S_data, S_raw>>

is_hidden_or_metadata_path(path) ==
    LET parts == SelectSeq(path, LAMBDA p : p # <<>>)
        base == PathName(path)
    IN  \/ \E i \in 1..Len(parts) : StartsWith(parts[i], <<".">>)
        \/ base \in {S_DS_Store, S_Thumbs_db}
        \/ StartsWith(base, <<".", "_">>)

\* A Python call either returns a value or raises: [ok, err, val].
Return(v) == [ok |-> TRUE, err |-> "", val |-> v]
Raise(e) == [ok |-> FALSE, err |-> e, val |-> <<>>]

\* _safe_segment without its check for separators
_safe_segment_NoSeparatorCheck(value) ==
    IF value = <<>> THEN Raise("ValueError")
    ELSE IF Contains(value, NUL) THEN Raise("ValueError")
    ELSE IF value \in {<<".">>, <<".", ".">>} THEN Raise("ValueError")
    ELSE Return(value)

_safe_segment(value) ==
    IF value = <<>> THEN Raise("ValueError")
    ELSE IF Contains(value, NUL) THEN Raise("ValueError")
    ELSE IF Contains(value, "/") \/ Contains(value, "\\") THEN Raise("ValueError")
    ELSE IF value \in {<<".">>, <<".", ".">>} THEN Raise("ValueError")
    ELSE Return(value)

\* _safe_relpath without the normalisation of backslashes
storage_safe_relpath_NoNormalize(filename) ==
    IF filename = <<>> THEN Raise("ValueError")
    ELSE LET p == PosixParts(filename)
         IN  IF IsAbsolute(p) THEN Raise("ValueError")
             ELSE IF \E i \in 1..Len(p) : p[i] \in {<<".", ".">>, <<>>}
                  THEN Raise("ValueError")
             ELSE Return(p)

storage_safe_relpath(filename) ==
    IF filename = <<>> THEN Raise("ValueError")
    ELSE LET normalized == Replace(filename, "\\", "/")
             p == PosixParts(normalized)
         IN  IF IsAbsolute(p) THEN Raise("ValueError")
             ELSE IF \E i \in 1..Len(p) : p[i] \in {<<".", ".">>, <<>>}
                  THEN Raise("ValueError")
             ELSE Return(p)

-----------------------------------------------------------------------------
(* The filesystem: a function from absolute locations to entries.  The     *)
(* server's working directory is CWD; a relative path names a location     *)
(* below it.  The kernel resolves ".." and symbolic links in every path it *)
(* is given (Resolve).                                                     *)

ROOT == <<"/">>
S_srv == <<"s", "r", "v">>
CWD == <<ROOT, S_srv>>

MaxSymlinks == 8

Dir == [kind |-> "dir", size |-> 0, target |-> <<>>]
File(n) == [kind |-> "file", size |-> n, target |-> <<>>]
Link(t) == [kind |-> "link", size |-> 0, target |-> t]

\* os.path.abspath without normalisation
Abs(p) == IF IsAbsolute(p) THEN p ELSE CWD \o p

\* realpath, non-strict: walk the parts, follow links, keep missing parts as they are
RECURSIVE ResolveFrom(_, _, _, _)
ResolveFrom(f, done, rest, fuel) ==
    IF rest = <<>> THEN done
    ELSE IF rest[1] = <<".", ".">>
         THEN ResolveFrom(f, IF Len(done) <= 1 THEN done ELSE PathParent(done),
                          Tail(rest), fuel)
    ELSE LET new == Append(done, rest[1])
         IN  IF new \in DOMAIN f /\ f[new].kind = "link" /\ fuel > 0
             THEN ResolveFrom(f, <<ROOT>>, Tail(f[new].target) \o Tail(rest), fuel - 1)
             ELSE ResolveFrom(f, new, Tail(rest), fuel)

\* Path.resolve(): the absolute location a path names
Resolve(f, p) == ResolveFrom(f, <<ROOT>>, Tail(Abs(p)), MaxSymlinks)

Exists(f, p) == Resolve(f, p) \in DOMAIN f
IsDir(f, p) == LET loc == Resolve(f, p) IN loc \in DOMAIN f /\ f[loc].kind = "dir"
IsFile(f, p) == LET loc == Resolve(f, p) IN loc \in DOMAIN f /\ f[loc].kind = "file"

Prefixes(loc) == {SubSeq(loc, 1, n) : n \in 1..Len(loc)}

\* Path.mkdir(parents=True, exist_ok=True): [ok, err, val: the new filesystem]
MkdirP(f, p) ==
    LET loc == Resolve(f, p)
    IN  IF \E q \in Prefixes(loc) : q \in DOMAIN f /\ f[q].kind # "dir"
        THEN Raise("OSError")
        ELSE Return([q \in DOMAIN f \cup Prefixes(loc) |->
                        IF q \in DOMAIN f THEN f[q] ELSE Dir])

\* open(dest, "xb"): an existing file keeps its content
WriteFile_KeepsExisting(f, dest, n) ==
    LET loc == Resolve(f, dest)
    IN  IF IsDir(f, dest) \/ ~IsDir(f, PathParent(loc)) THEN Raise("OSError")
        ELSE Return([q \in DOMAIN f \cup {loc} |->
                        IF q = loc /\ q \notin DOMAIN f THEN File(n) ELSE f[q]])

\* open(dest, "wb") followed by a write of n bytes
WriteFile(f, dest, n) ==
    LET loc == Resolve(f, dest)
    IN  IF IsDir(f, dest) \/ ~IsDir(f, PathParent(loc)) THEN Raise("OSError")
        ELSE Return([q \in DOMAIN f \cup {loc} |-> IF q = loc THEN File(n) ELSE f[q]])

\* The loop of save_files over files[i..]: [ok, err, val: the filesystem reached].
\* The filesystem keeps what was written before a raise.
RECURSIVE SaveLoop(_, _, _, _)
SaveLoop(f, root, files, i) ==
    IF i > Len(files) THEN [ok |-> TRUE, err |-> "", val |-> f]
    ELSE LET rel == storage_safe_relpath(files[i].filename)
         IN  IF ~rel.ok THEN [ok |-> FALSE, err |-> rel.err, val |-> f]
             ELSE IF is_hidden_or_metadata_path(rel.val)
                  THEN SaveLoop(f, root, files, i + 1)
             ELSE LET dest == JoinPath(root, rel.val)
                      made == MkdirP(f, PathParent(dest))
                  IN  IF ~made.ok THEN [ok |-> FALSE, err |-> made.err, val |-> f]
                      ELSE LET wrote == WriteFile(made.val, dest, files[i].size)
                           IN  IF ~wrote.ok
                               THEN [ok |-> FALSE, err |-> wrote.err, val |-> made.val]
                               ELSE SaveLoop(wrote.val, root, files, i + 1)

\* save_files: [ok, err, root, fs]
save_files(f, partner_id, dataset_name, files) ==
    LET p == _safe_segment(partner_id)
        d == _safe_segment(dataset_name)
    IN  IF ~p.ok THEN [ok |-> FALSE, err |-> p.err, root |-> <<>>, fs |-> f]
        ELSE IF ~d.ok THEN [ok |-> FALSE, err |-> d.err, root |-> <<>>, fs |-> f]
        ELSE LET root == JoinPath(JoinPath(BASE_PATH, PosixParts(p.val)), PosixParts(d.val))
                 made == MkdirP(f, root)
             IN  IF ~made.ok THEN [ok |-> FALSE, err |-> made.err, root |-> root, fs |-> f]
                 ELSE LET done == SaveLoop(made.val, root, files, 1)
                      IN  [ok |-> done.ok, err |-> done.err, root |-> root, fs |-> done.val]

-----------------------------------------------------------------------------
(* upload.py *)

\* root.rglob("*"): every entry below root, as a path relative to root
RGlob(f, root) ==
    LET loc == Resolve(f, root)
    IN  {RelativeTo(q, loc) : q \in {x \in DOMAIN f : IsPrefix(loc, x) /\ x # loc}}

\* all_files of upload(): the non-hidden regular files below root
\* all_files without the is_file() test
ManifestFiles_CountsDirectories(f, root) ==
    {r \in RGlob(f, root) : ~is_hidden_or_metadata_path(r)}

ManifestFiles(f, root) ==
    {r \in RGlob(f, root) :
        IsFile(f, JoinPath(root, r)) /\ ~is_hidden_or_metadata_path(r)}

\* f.stat().st_size
StatSize(f, p) == f[Resolve(f, p)].size

\* sum(f.stat().st_size for f in all_files)
RECURSIVE SumSizes(_, _, _)
SumSizes(f, root, rels) ==
    IF rels = {} THEN 0
    ELSE LET r == CHOOSE x \in rels : TRUE
         IN  StatSize(f, JoinPath(root, r)) + SumSizes(f, root, rels \ {r})

Response(status, kind, body) == [status |-> status, kind |-> kind, body |-> body]

NoRequest == [op |-> "none"]
NoResponse == Response(0, "none", <<>>)

\* POST /upload
Upload(partner_id, dataset_name, files) ==
    /\ budget > 0
    /\ budget' = budget - 1
    /\ req' = [op |-> "upload", partner_id |-> partner_id,
               dataset_name |-> dataset_name, files |-> files]
    /\ LET dataset_id == Cardinality(db) + 1   \* uuid4(): an id no row has
           saved == save_files(fs, partner_id, dataset_name, files)
       IN  /\ fs' = saved.fs
           /\ IF ~saved.ok
              THEN /\ resp' = Response(IF saved.err = "ValueError" THEN 400 ELSE 500,
                                       saved.err, <<>>)
                   /\ UNCHANGED <<db, clock>>
              ELSE LET root == saved.root
                       all_files == ManifestFiles(saved.fs, root)
                       file_count == Cardinality(all_files)
                       total_size == SumSizes(saved.fs, root, all_files)
                   IN  IF file_count = 0
                       THEN /\ resp' = Response(400, "NoUploadableFiles", <<>>)
                            /\ UNCHANGED <<db, clock>>
                       ELSE /\ clock' = clock + 1
                            /\ db' = db \cup {[id |-> dataset_id,
                                               partner_id |-> partner_id,
                                               name |-> dataset_name,
                                               type |-> "mixed",
                                               path |-> PathStr(saved.root),
                                               file_count |-> file_count,
                                               total_size_bytes |-> total_size,
                                               uploaded_at |-> clock + 1]}
                            /\ resp' = Response(200, "upload", [dataset_id |-> dataset_id])
    /\ UNCHANGED <<plants, pillow>>

-----------------------------------------------------------------------------
(* browse.py: lookup and path guard *)

\* the rows the query of _get_dataset_by_partner_and_name_or_404 can return as
\* .first(): the matching rows with the greatest uploaded_at
\* the query with order_by(uploaded_at.asc())
LatestByPartnerAndName_Ascending(rows, partner_id, dataset_name) ==
    LET matching == {d \in rows : d.partner_id = partner_id /\ d.name = dataset_name}
    IN  {d \in matching : \A e \in matching : d.uploaded_at <= e.uploaded_at}

LatestByPartnerAndName(rows, partner_id, dataset_name) ==
    LET matching == {d \in rows : d.partner_id = partner_id /\ d.name = dataset_name}
    IN  {d \in matching : \A e \in matching : e.uploaded_at <= d.uploaded_at}

DatasetJson(d) ==
    [id |-> d.id, partner_id |-> d.partner_id, name |-> d.name,
     file_count |-> d.file_count, total_size_bytes |-> d.total_size_bytes,
     uploaded_at |-> d.uploaded_at, path |-> d.path]

\* GET /datasets/by-name
DatasetByName(partner_id, dataset_name) ==
    /\ req' = [op |-> "by_name", partner_id |-> partner_id, dataset_name |-> dataset_name]
    /\ LET found == LatestByPartnerAndName(db, partner_id, dataset_name)
       IN  IF found = {} THEN resp' = Response(404, "DatasetNotFound", <<>>)
           ELSE \E d \in found : resp' = Response(200, "by_name", DatasetJson(d))
    /\ UNCHANGED <<fs, db, clock, budget, plants, pillow>>

browse_safe_relpath(rel) ==
    IF rel = <<>> THEN Raise("HTTP400")
    ELSE LET rel_norm == Replace(rel, "\\", "/")
             p == PosixParts(rel_norm)
         IN  IF IsAbsolute(p) THEN Raise("HTTP400")
             ELSE IF \E i \in 1..Len(p) : p[i] = <<".", ".">> THEN Raise("HTTP400")
             ELSE Return(p)

\* _safe_join_dataset without the containment test on the resolved path
_safe_join_dataset_NoContainment(f, root, rel) ==
    LET safe == browse_safe_relpath(rel)
    IN  IF ~safe.ok THEN safe ELSE Return(Resolve(f, JoinPath(root, safe.val)))

_safe_join_dataset(f, root, rel) ==
    LET root_resolved == Resolve(f, root)
        safe == browse_safe_relpath(rel)
    IN  IF ~safe.ok THEN safe
        ELSE LET full == Resolve(f, JoinPath(root, safe.val))
             IN  IF full # root_resolved
                    /\ ~(IsPrefix(root_resolved, full) /\ Len(root_resolved) < Len(full))
                 THEN Raise("HTTP400")
                 ELSE Return(full)

-----------------------------------------------------------------------------
(* browse.py: thumbnail *)

image_exts ==
    {<<".", "p", "n", "g">>, <<".", "j", "p", "g">>, <<".", "j", "p", "e", "g">>,
     <<".", "g", "i", "f">>, <<".", "w", "e", "b", "p">>, <<".", "b", "m", "p">>,
     <<".", "t", "i", "f">>, <<".", "t", "i", "f", "f">>, <<".", "h", "e", "i", "c">>}

\* what Pillow makes of a file: it cannot read it, or an image with or without alpha
DecodeOutcomes == {"unreadable", "alpha", "opaque"}

\* the image files thumbnail() picks from when no path is given
ThumbnailCandidates(f, root) ==
    {JoinPath(root, r) : r \in {x \in RGlob(f, root) :
        /\ IsFile(f, JoinPath(root, x))
        /\ Lower(Suffix(x)) \in image_exts
        /\ ~is_hidden_or_metadata_path(x)}}

\* the part of thumbnail() after the file to serve is known
ThumbnailServe(f, full, outcome) ==
    IF ~Exists(f, full) \/ ~IsFile(f, full) THEN Response(404, "FileNotFound", <<>>)
    ELSE IF ~pillow THEN Response(500, "PillowMissing", <<>>)
    ELSE IF outcome = "unreadable" THEN Response(400, "UnableToReadImage", <<>>)
    ELSE Response(200, "thumbnail",
                  [full |-> Resolve(f, full),
                   media_type |-> IF outcome = "alpha" THEN "image/png" ELSE "image/jpeg"])

\* GET /thumbnail
Thumbnail(partner_id, dataset_name, path) ==
    /\ req' = [op |-> "thumbnail", partner_id |-> partner_id,
               dataset_name |-> dataset_name, path |-> path]
    /\ LET found == LatestByPartnerAndName(db, partner_id, dataset_name)
       IN  IF found = {} THEN resp' = Response(404, "DatasetNotFound", <<>>)
           ELSE \E d \in found :
                LET root == PosixParts(d.path)
                IN  IF path # <<>>
                    THEN LET full == _safe_join_dataset(fs, root, path)
                         IN  IF ~full.ok THEN resp' = Response(400, "InvalidPath", <<>>)
                             ELSE \E o \in DecodeOutcomes :
                                     resp' = ThumbnailServe(fs, full.val, o)
                    ELSE LET image_files == ThumbnailCandidates(fs, root)
                         IN  IF image_files = {}
                             THEN resp' = Response(404, "NoImageFiles", <<>>)
                             ELSE \E full \in image_files, o \in DecodeOutcomes :
                                     resp' = ThumbnailServe(fs, full, o)
    /\ UNCHANGED <<fs, db, clock, budget, plants, pillow>>

-----------------------------------------------------------------------------
(* browse.py: dataset_tree *)

\* 5 and 2000 in the source; scaled down so that both limits are met
max_depth == 2
max_entries == 4

\* the names dir_path.iterdir() yields
DirEntries(f, dir_path) ==
    LET loc == Resolve(f, dir_path)
    IN  {q[Len(q)] : q \in {x \in DOMAIN f : Len(x) = Len(loc) + 1 /\ IsPrefix(loc, x)}}

\* the sort key without .lower()
KeyLess_CaseSensitive(f, dir_path, a, b) ==
    LET ad == IsDir(f, Append(dir_path, a))
        bd == IsDir(f, Append(dir_path, b))
    IN  \/ ad /\ ~bd
        \/ ad = bd /\ StrLess(a, b)

\* the sort key of dataset_tree: (not p.is_dir(), p.name.lower())
KeyLess(f, dir_path, a, b) ==
    LET ad == IsDir(f, Append(dir_path, a))
        bd == IsDir(f, Append(dir_path, b))
    IN  \/ ad /\ ~bd
        \/ ad = bd /\ StrLess(Lower(a), Lower(b))

\* a comes before b in sorted(dir_path.iterdir(), key=...): by key, and for equal
\* keys in the order iterdir() yields them, which the OS chooses (here by name,
\* ascending or descending)
SortsBefore(f, dir_path, rev, a, b) ==
    \/ KeyLess(f, dir_path, a, b)
    \/ /\ ~KeyLess(f, dir_path, b, a)
       /\ IF rev THEN StrLess(b, a) ELSE StrLess(a, b)

RECURSIVE SortedNames(_, _, _, _)
SortedNames(f, dir_path, rev, names) ==
    IF names = {} THEN <<>>
    ELSE LET first == CHOOSE a \in names :
                          \A b \in names \ {a} : SortsBefore(f, dir_path, rev, a, b)
         IN  <<first>> \o SortedNames(f, dir_path, rev, names \ {first})

\* _rel
RelStr(p, root) == IF p = root THEN <<>> ELSE PathStr(RelativeTo(p, root))

\* _build_dir_node with its nonlocal entries_seen and truncated threaded through:
\* [node, seen, truncated].  Nodes of both types carry the same fields: a
\* directory has size_bytes 0 here and a file has no children.
RECURSIVE BuildDirNode(_, _, _, _, _, _, _)
RECURSIVE BuildChildren(_, _, _, _, _, _, _, _, _)
BuildDirNode(f, root, rev, dir_path, depth, seen, truncated) ==
    LET name == IF dir_path # root THEN PathName(dir_path) ELSE <<>>
    IN  IF depth >= max_depth \/ truncated
        THEN [node |-> [type |-> "directory", name |-> name,
                        path |-> RelStr(dir_path, root), size_bytes |-> 0,
                        children |-> <<>>],
              seen |-> seen, truncated |-> truncated]
        ELSE LET children == SortedNames(f, dir_path, rev, DirEntries(f, dir_path))
                 loop == BuildChildren(f, root, rev, dir_path, depth, children, 1,
                                       <<>>, [seen |-> seen, truncated |-> truncated])
             IN  [node |-> [type |-> "directory", name |-> name,
                            path |-> RelStr(dir_path, root), size_bytes |-> 0,
                            children |-> loop.children],
                  seen |-> loop.seen, truncated |-> loop.truncated]

\* the loop with the cap tested by > instead of >=
RECURSIVE BuildChildren_OffByOne(_, _, _, _, _, _, _, _, _)
BuildChildren_OffByOne(f, root, rev, dir_path, depth, children, i, acc, st) ==
    IF i > Len(children)
    THEN [children |-> acc, seen |-> st.seen, truncated |-> st.truncated]
    ELSE LET child == Append(dir_path, children[i])
             rel_child == RelativeTo(child, root)
         IN  IF is_hidden_or_metadata_path(rel_child)
             THEN BuildChildren_OffByOne(f, root, rev, dir_path, depth, children, i + 1, acc, st)
             ELSE IF st.seen > max_entries
                  THEN [children |-> acc, seen |-> st.seen, truncated |-> TRUE]
             ELSE IF IsDir(f, child)
                  THEN LET sub == BuildDirNode(f, root, rev, child, depth + 1,
                                               st.seen + 1, st.truncated)
                       IN  BuildChildren_OffByOne(f, root, rev, dir_path, depth, children, i + 1,
                                         Append(acc, sub.node),
                                         [seen |-> sub.seen, truncated |-> sub.truncated])
             ELSE BuildChildren_OffByOne(f, root, rev, dir_path, depth, children, i + 1,
                                Append(acc, [type |-> "file", name |-> children[i],
                                             path |-> PathStr(rel_child),
                                             size_bytes |-> StatSize(f, child),
                                             children |-> <<>>]),
                                [seen |-> st.seen + 1, truncated |-> st.truncated])

\* the for loop of _build_dir_node from children[i] on
BuildChildren(f, root, rev, dir_path, depth, children, i, acc, st) ==
    IF i > Len(children)
    THEN [children |-> acc, seen |-> st.seen, truncated |-> st.truncated]
    ELSE LET child == Append(dir_path, children[i])
             rel_child == RelativeTo(child, root)
         IN  IF is_hidden_or_metadata_path(rel_child)
             THEN BuildChildren(f, root, rev, dir_path, depth, children, i + 1, acc, st)
             ELSE IF st.seen >= max_entries
                  THEN [children |-> acc, seen |-> st.seen, truncated |-> TRUE]
             ELSE IF IsDir(f, child)
                  THEN LET sub == BuildDirNode(f, root, rev, child, depth + 1,
                                               st.seen + 1, st.truncated)
                       IN  BuildChildren(f, root, rev, dir_path, depth, children, i + 1,
                                         Append(acc, sub.node),
                                         [seen |-> sub.seen, truncated |-> sub.truncated])
             ELSE BuildChildren(f, root, rev, dir_path, depth, children, i + 1,
                                Append(acc, [type |-> "file", name |-> children[i],
                                             path |-> PathStr(rel_child),
                                             size_bytes |-> StatSize(f, child),
                                             children |-> <<>>]),
                                [seen |-> st.seen + 1, truncated |-> st.truncated])

\* GET /datasets/tree
DatasetTree(partner_id, dataset_name) ==
    /\ \E rev \in BOOLEAN :
       req' = [op |-> "tree", partner_id |-> partner_id, dataset_name |-> dataset_name,
               rev |-> rev]
    /\ LET found == LatestByPartnerAndName(db, partner_id, dataset_name)
       IN  IF found = {} THEN resp' = Response(404, "DatasetNotFound", <<>>)
           ELSE \E d \in found :
                LET root == PosixParts(d.path)
                    start == root
                IN  IF ~Exists(fs, root) THEN resp' = Response(404, "PathMissing", <<>>)
                    ELSE IF ~Exists(fs, start) THEN resp' = Response(404, "PathNotFound", <<>>)
                    ELSE IF ~IsDir(fs, start) THEN resp' = Response(400, "NotADirectory", <<>>)
                    ELSE LET built == BuildDirNode(fs, root, req'.rev, start, 0, 0, FALSE)
                         IN  resp' = Response(200, "tree",
                                       [dataset_id |-> d.id,
                                        root_path |-> RelStr(start, root),
                                        max_depth |-> max_depth,
                                        max_entries |-> max_entries,
                                        entries_returned |-> built.seen,
                                        truncated |-> built.truncated,
                                        tree |-> built.node])
    /\ UNCHANGED <<fs, db, clock, budget, plants, pillow>>

-----------------------------------------------------------------------------
(* browse.py: preview_dataset *)

max_parquet_files == 25
max_image_files == 50

S_parquet_ext == <<".", "p", "a", "r", "q", "u", "e", "t">>

\* sorted(paths)
RECURSIVE SortedPaths(_)
SortedPaths(paths) ==
    IF paths = {} THEN <<>>
    ELSE LET first == CHOOSE p \in paths : \A q \in paths \ {p} : PathLess(p, q)
         IN  <<first>> \o SortedPaths(paths \ {first})

\* seq[:n]
Take(seq, n) == SubSeq(seq, 1, IF Len(seq) < n THEN Len(seq) ELSE n)

\* what the decoder subprocess does with one file
SubprocessOutcomes == {"rows", "no_output", "garbled_output", "nonzero_exit", "timeout"}

_parquet_preview_subprocess(outcome) ==
    IF outcome = "timeout" THEN Raise("TimeoutExpired")
    ELSE IF outcome = "nonzero_exit" THEN Raise("RuntimeError")
    ELSE IF outcome = "garbled_output" THEN Raise("JSONDecodeError")
    ELSE IF outcome = "no_output" THEN Return([returned |-> 0])
    ELSE Return([returned |-> 1])

\* the loop without the try/except: the first failure ends it
RECURSIVE ParquetLoop_Aborting(_, _, _, _)
ParquetLoop_Aborting(files, outcome, i, st) ==
    IF i > Len(files) THEN st
    ELSE LET rel == PathStr(files[i])
             preview == _parquet_preview_subprocess(outcome[files[i]])
         IN  IF preview.ok
             THEN ParquetLoop_Aborting(files, outcome, i + 1,
                     [st EXCEPT !.previews = Append(@, [path |-> rel,
                                                  returned |-> preview.val.returned])])
             ELSE [st EXCEPT !.errors = Append(@, [type |-> "parquet", path |-> rel,
                                             error |-> preview.err])]

\* the loop over parquet_files[i..]: [previews, errors]
RECURSIVE ParquetLoop(_, _, _, _)
ParquetLoop(files, outcome, i, st) ==
    IF i > Len(files) THEN st
    ELSE LET rel == PathStr(files[i])
             preview == _parquet_preview_subprocess(outcome[files[i]])
         IN  IF preview.ok
             THEN ParquetLoop(files, outcome, i + 1,
                     [st EXCEPT !.previews = Append(@, [path |-> rel,
                                                  returned |-> preview.val.returned])])
             ELSE ParquetLoop(files, outcome, i + 1,
                     [st EXCEPT !.errors = Append(@, [type |-> "parquet", path |-> rel,
                                                error |-> preview.err])])

\* the loop over image_files[i..]: [previews, errors]
RECURSIVE ImageLoop(_, _, _, _)
ImageLoop(files, outcome, i, st) ==
    IF i > Len(files) THEN st
    ELSE LET rel == PathStr(files[i])
         IN  IF outcome[files[i]] # "unreadable"
             THEN ImageLoop(files, outcome, i + 1,
                     [st EXCEPT !.previews = Append(@, [path |-> rel])])
             ELSE ImageLoop(files, outcome, i + 1,
                     [st EXCEPT !.errors = Append(@, [type |-> "image", path |-> rel,
                                                error |-> "UnidentifiedImageError"])])

\* sorted(root.rglob("*.parquet"))[:max_parquet_files], relative to root
ParquetFiles(f, root) ==
    Take(SortedPaths({r \in RGlob(f, root) : EndsWith(PathName(r), S_parquet_ext)}),
         max_parquet_files)

\* the image_files of preview_dataset, relative to root
ImageFiles(f, root) ==
    Take(SortedPaths({r \in RGlob(f, root) :
            IsFile(f, JoinPath(root, r)) /\ Lower(Suffix(r)) \in image_exts}),
         max_image_files)

Range(seq) == {seq[i] : i \in 1..Len(seq)}

\* what Image.open makes of one file
OpenOutcomes == {"unreadable", "image"}

\* GET /preview
Preview(partner_id, dataset_name) ==
    LET found == LatestByPartnerAndName(db, partner_id, dataset_name)
        Req(po, io) == [op |-> "preview", partner_id |-> partner_id,
                        dataset_name |-> dataset_name,
                        parquet_outcome |-> po, image_outcome |-> io]
    IN  /\ IF found = {}
           THEN /\ req' = Req(<<>>, <<>>)
                /\ resp' = Response(404, "DatasetNotFound", <<>>)
           ELSE \E d \in found :
                LET root == PosixParts(d.path)
                    parquet_files == ParquetFiles(fs, root)
                    image_files == ImageFiles(fs, root)
                IN  IF ~Exists(fs, root)
                    THEN /\ req' = Req(<<>>, <<>>)
                         /\ resp' = Response(404, "PathMissing", <<>>)
                    ELSE \E po \in [Range(parquet_files) -> SubprocessOutcomes] :
                         LET pq == ParquetLoop(parquet_files, po, 1,
                                               [previews |-> <<>>, errors |-> <<>>])
                         IN  IF ~pillow
                             THEN /\ req' = Req(po, <<>>)
                                  /\ resp' = Response(500, "PillowMissing", <<>>)
                             ELSE \E io \in [Range(image_files) -> OpenOutcomes] :
                                  LET im == ImageLoop(image_files, io, 1,
                                                [previews |-> <<>>, errors |-> pq.errors])
                                  IN  /\ req' = Req(po, io)
                                      /\ resp' = Response(200, "preview",
                                           [dataset_id |-> d.id,
                                            parquet |-> [count |-> Len(parquet_files),
                                                         previews |-> pq.previews],
                                            images |-> [count |-> Len(image_files),
                                                        previews |-> im.previews],
                                            errors |-> im.errors])
        /\ UNCHANGED <<fs, db, clock, budget, plants, pillow>>

\* GET /datasets
ListDatasets ==
    /\ req' = [op |-> "list"]
    /\ resp' = Response(200, "list", {[DatasetJson(d) EXCEPT !.path = <<>>] : d \in db})
    /\ UNCHANGED <<fs, db, clock, budget, plants, pillow>>

-----------------------------------------------------------------------------
(* The environment: something other than /upload (an operator, a sync job) *)
(* puts a file below a dataset root.                                       *)

Plant(root, rel, n) ==
    /\ plants < MaxPlants
    /\ plants' = plants + 1
    /\ LET dest == JoinPath(root, rel)
           made == MkdirP(fs, PathParent(dest))
       IN  /\ made.ok
           /\ WriteFile(made.val, dest, n).ok
           /\ fs' = WriteFile(made.val, dest, n).val
    /\ req' = [op |-> "plant", root |-> root, rel |-> rel]
    /\ resp' = NoResponse
    /\ UNCHANGED <<db, clock, budget, pillow>>

-----------------------------------------------------------------------------
(* Inputs *)

S_p == <<"p">>
S_q == <<"q">>
S_a_txt == <<"a", ".", "t", "x", "t">>
S_b_txt == <<"b", ".", "t", "x", "t">>
S_B_txt == <<"B", ".", "t", "x", "t">>
S_sub == <<"s", "u", "b">>
S_sub_b_txt == S_sub \o <<"/">> \o S_b_txt
S_A_dir_x_png == <<"A", "_", "d", "i", "r", "/", "x", ".", "p", "n", "g">>
S_sub_t_parquet == S_sub \o <<"/", "t">> \o S_parquet_ext
S_sub_d_t_parquet == S_sub \o <<"/", "d", "/", "t">> \o S_parquet_ext

\* every string over alphabet of length at most n
RECURSIVE Strings(_, _)
Strings(alphabet, n) ==
    IF n = 0 THEN {<<>>}
    ELSE LET shorter == Strings(alphabet, n - 1)
         IN  shorter \cup {Append(s, c) : s \in {x \in shorter : Len(x) = n - 1},
                                           c \in alphabet}

\* sequences over S of length at most n
SeqsUpTo(S, n) == UNION {[1..k -> S] : k \in 0..n}

UploadFile(name, n) == [filename |-> name, size |-> n]

SegmentInputs ==
    {S_p, S_q, <<>>, <<".">>, <<".", ".">>, <<"p", "/", "q">>, <<"p", "\\", "q">>,
     <<"p", NUL>>, <<".", "p">>}

\* the (partner_id, dataset_name) pairs of uploads that probe segment validation
SegmentPairs == {pd \in SegmentInputs \X SegmentInputs : pd[1] = S_p \/ pd[2] = S_p}

LookupSegments == {S_p, S_q, <<".", ".">>}

IngestFiles ==
    {UploadFile(S_a_txt, n) : n \in 1..MaxSize}
        \cup {UploadFile(S_sub_b_txt, 1), UploadFile(S_DS_Store, 1), UploadFile(S_sub, 1)}

\* the upload of the specification's example
ExampleUpload ==
    <<UploadFile(S_a_txt, 1), UploadFile(S_DS_Store, 1), UploadFile(S_sub_b_txt, 2)>>

-----------------------------------------------------------------------------
(* The service from a fresh deployment: uploads and lookups *)

EmptyDisk == [loc \in {<<ROOT>>, CWD} |-> Dir]

Init ==
    /\ fs = EmptyDisk
    /\ db = {}
    /\ clock = 0
    /\ budget = MaxUploads
    /\ plants = 0
    /\ pillow = TRUE
    /\ req = NoRequest
    /\ resp = NoResponse

Next ==
    \/ \E p \in {S_p, S_q}, files \in SeqsUpTo(IngestFiles, MaxFiles) :
          Upload(p, S_p, files)
    \/ \E pd \in SegmentPairs : Upload(pd[1], pd[2], <<UploadFile(S_a_txt, 1)>>)
    \/ Upload(S_q, S_q, ExampleUpload)
    \/ \E p \in LookupSegments, d \in LookupSegments : DatasetByName(p, d)
    \/ ListDatasets

Spec == Init /\ [][Next]_vars

-----------------------------------------------------------------------------
(* Client-supplied paths: one upload of arbitrary filenames into a fresh   *)
(* deployment, then thumbnail requests with arbitrary paths                *)

PathAlphabet == {"a", ".", "/", "\\"}
PathStrings == Strings(PathAlphabet, MaxPathLen)

InitPaths ==
    /\ fs = EmptyDisk
    /\ db = {}
    /\ clock = 0
    /\ budget = 1
    /\ plants = 0
    /\ pillow = TRUE
    /\ req = NoRequest
    /\ resp = NoResponse

NextPaths ==
    \/ \E name \in PathStrings : Upload(S_p, S_p, <<UploadFile(name, 1)>>)
    \/ \E name \in PathStrings :
          Upload(S_p, S_p, <<UploadFile(<<"a">>, 1), UploadFile(name, 2)>>)
    \/ \E path \in PathStrings : Thumbnail(S_p, S_p, path)

SpecPaths == InitPaths /\ [][NextPaths]_vars

-----------------------------------------------------------------------------
(* A dataset whose tree holds symbolic links, put there by something other *)
(* than the service, and thumbnail requests with arbitrary paths           *)

GuardAlphabet == {"l", "x", "/", "\\", "."}
GuardStrings == Strings(GuardAlphabet, MaxPathLen)

S_l == <<"l">>
S_x == <<"x">>

GuardRoot == CWD \o BASE_PATH \o <<S_p, S_p>>
Outside == CWD \o BASE_PATH \o <<S_p, S_q>>

\* where the link l of the root may point
LinkTargets1 == {Outside, Append(Outside, S_x), GuardRoot, Append(GuardRoot, S_x)}

\* where the link x/l may point
LinkTargets2 == {Outside, Append(GuardRoot, S_l)}

\* root/x/x and outside/x are files, root/l and root/x/l are links
GuardDisk(t1, t2) ==
    LET dirs == Prefixes(Append(GuardRoot, S_x)) \cup Prefixes(Outside)
        files == {GuardRoot \o <<S_x, S_x>>, Append(Outside, S_x)}
        l1 == Append(GuardRoot, S_l)
        l2 == GuardRoot \o <<S_x, S_l>>
    IN  [loc \in dirs \cup files \cup {l1, l2} |->
            IF loc = l1 THEN Link(t1)
            ELSE IF loc = l2 THEN Link(t2)
            ELSE IF loc \in files THEN File(1)
            ELSE Dir]

InitGuard ==
    /\ \E t1 \in LinkTargets1, t2 \in LinkTargets2 : fs = GuardDisk(t1, t2)
    /\ db = {[id |-> 1, partner_id |-> S_p, name |-> S_p, type |-> "mixed",
              path |-> PathStr(BASE_PATH \o <<S_p, S_p>>), file_count |-> 1,
              total_size_bytes |-> 1, uploaded_at |-> 1]}
    /\ clock = 1
    /\ budget = 0
    /\ plants = MaxPlants
    /\ pillow = TRUE
    /\ req = NoRequest
    /\ resp = NoResponse

NextGuard == \E path \in GuardStrings \ {<<>>} : Thumbnail(S_p, S_p, path)

SpecGuard == InitGuard /\ [][NextGuard]_vars

-----------------------------------------------------------------------------
(* Browsing: uploads into one dataset, files put below its root by others, *)
(* and tree and preview requests                                           *)

S_h_x_png == <<".", "h", "/", "x", ".", "p", "n", "g">>
S_ad_x_png == <<".", "_", "x", ".", "p", "n", "g">>

BrowseFiles ==
    {UploadFile(S_A_dir_x_png, 1), UploadFile(S_a_txt, 2),
     UploadFile(S_sub_t_parquet, 1), UploadFile(S_sub_d_t_parquet, 1),
     UploadFile(S_DS_Store, 1)}

\* the upload behind the specification's example of the sort order
SortExample == <<UploadFile(S_B_txt, 1), UploadFile(S_A_dir_x_png, 1), UploadFile(S_a_txt, 2)>>

\* what something other than the service puts below a dataset root
PlantPaths == {PosixParts(S_h_x_png), PosixParts(S_ad_x_png), PosixParts(S_b_txt)}

InitBrowse ==
    /\ fs = EmptyDisk
    /\ db = {}
    /\ clock = 0
    /\ budget = 1
    /\ plants = 0
    /\ pillow \in BOOLEAN
    /\ req = NoRequest
    /\ resp = NoResponse

NextBrowse ==
    \/ \E files \in SeqsUpTo(BrowseFiles, MaxFiles) : Upload(S_p, S_p, files)
    \/ Upload(S_p, S_p, SortExample)
    \/ \E d \in db, rel \in PlantPaths : Plant(PosixParts(d.path), rel, 1)
    \/ \E p \in {S_p, S_q} : DatasetTree(p, S_p)
    \/ Preview(S_p, S_p)

SpecBrowse == InitBrowse /\ [][NextBrowse]_vars

-----------------------------------------------------------------------------
(* Vocabulary of the properties *)

\* the step is a served /upload request
UploadStep == budget' = budget - 1

\* a single path segment, as the specification words it
SingleSegment(v) ==
    /\ v # <<>>
    /\ \A i \in 1..Len(v) : v[i] \notin {"/", "\\", NUL}
    /\ v # <<".">>
    /\ v # <<".", ".">>

\* <base>/<partnerId>/<datasetName> as a location
StorageRoot(partner_id, dataset_name) == CWD \o BASE_PATH \o <<partner_id, dataset_name>>

\* the regular files below a location, relative to it
FilesBelow(f, loc) ==
    {RelativeTo(q, loc) :
        q \in {x \in DOMAIN f : IsPrefix(loc, x) /\ x # loc /\ f[x].kind = "file"}}

\* the relative path a client-supplied filename denotes
DenotedPath(filename) == PosixParts(Replace(filename, "\\", "/"))

\* the distinct non-hidden relative paths of an upload
NonHiddenPaths(files) ==
    {r \in {DenotedPath(files[i].filename) : i \in 1..Len(files)} :
        ~is_hidden_or_metadata_path(r)}

-----------------------------------------------------------------------------
(* C3: partner_id and dataset_name are validated as single path segments   *)
(* before the storage root is built.  An upload with an invalid one is     *)
(* answered 400 and changes neither the disk nor the datasets table; with  *)
(* both valid, the root is <base>/<partner_id>/<dataset_name>: it is a     *)
(* directory afterwards, everything the upload creates is that directory,  *)
(* one of its ancestors or below it, and the registered path names it.     *)
C3_SegmentsValidatedBeforeRoot ==
    [][UploadStep =>
        LET p == req'.partner_id
            d == req'.dataset_name
            root == StorageRoot(p, d)
        IN  IF ~SingleSegment(p) \/ ~SingleSegment(d)
            THEN resp'.status = 400 /\ fs' = fs /\ db' = db
            ELSE /\ root \in DOMAIN fs' /\ fs'[root].kind = "dir"
                 /\ Len(root) = Len(CWD \o BASE_PATH) + 2
                 /\ \A q \in DOMAIN fs' \ DOMAIN fs : IsPrefix(q, root) \/ IsPrefix(root, q)
                 /\ \A row \in db' \ db : Resolve(fs', PosixParts(row.path)) = root
      ]_vars

C3_Witness ==
    /\ req.op = "upload"
    /\ req.partner_id = <<"p", "/", "q">>
    /\ resp.status = 400

\* C4: an upload to a fresh root never writes a flagged file and writes only
\* paths of the upload; when it is accepted, the files below the root are
\* exactly the non-hidden relative paths of the upload and the registered
\* file_count is their number.
C4_FreshUploadWritesNonHidden ==
    [][(/\ UploadStep
        /\ SingleSegment(req'.partner_id) /\ SingleSegment(req'.dataset_name)
        /\ StorageRoot(req'.partner_id, req'.dataset_name) \notin DOMAIN fs)
       =>
        LET root == StorageRoot(req'.partner_id, req'.dataset_name)
            written == FilesBelow(fs', root)
            wanted == NonHiddenPaths(req'.files)
        IN  /\ \A r \in written : ~is_hidden_or_metadata_path(r)
            /\ written \subseteq wanted
            /\ resp'.status = 200 =>
                 /\ written = wanted
                 /\ \E row \in db' \ db :
                       /\ row.id = resp'.body.dataset_id
                       /\ row.file_count = Cardinality(wanted)
      ]_vars

C4_Witness ==
    /\ req.op = "upload"
    /\ req.files = ExampleUpload
    /\ resp.status = 200
    /\ \E row \in db : row.id = resp.body.dataset_id /\ row.file_count = 2
    /\ FilesBelow(fs, StorageRoot(S_q, S_q)) = {<<S_a_txt>>, <<S_sub, S_b_txt>>}

\* C5: an upload all of whose files are hidden/metadata is answered with the
\* 'no uploadable files' error and registers no dataset, whatever the root
\* already holds.
C5_AllHiddenUploadFails ==
    [][(/\ UploadStep
        /\ SingleSegment(req'.partner_id) /\ SingleSegment(req'.dataset_name)
        /\ \A i \in 1..Len(req'.files) :
              /\ storage_safe_relpath(req'.files[i].filename).ok
              /\ is_hidden_or_metadata_path(DenotedPath(req'.files[i].filename)))
       => (resp'.kind = "NoUploadableFiles" /\ db' = db)
      ]_vars

\* C9: a lookup by (partner_id, dataset_name) answers 404 exactly when no row
\* has that pair, and otherwise returns the row with that pair that was
\* inserted last (rows are numbered in insertion order).
C9_LookupLastWriteWins ==
    req.op = "by_name" =>
        LET same == {d \in db : d.partner_id = req.partner_id /\ d.name = req.dataset_name}
        IN  IF same = {} THEN resp.status = 404
            ELSE /\ resp.status = 200
                 /\ resp.body.partner_id = req.partner_id
                 /\ resp.body.name = req.dataset_name
                 /\ \E d \in same : /\ d.id = resp.body.id
                                    /\ \A e \in same : e.id <= d.id
                                    /\ resp.body = DatasetJson(d)

C9_Witness ==
    /\ req.op = "by_name"
    /\ resp.status = 200
    /\ \E d, e \in db : /\ d.id < e.id
                        /\ d.partner_id = e.partner_id /\ d.name = e.name
                        /\ d.partner_id = req.partner_id /\ d.name = req.dataset_name
                        /\ resp.body.id = e.id
                        /\ d.file_count # e.file_count

-----------------------------------------------------------------------------
(* C1 *)

\* p has a ".." segment, or is absolute, once "\" is read as "/"
Traversing(p) ==
    LET segments == Split(Replace(p, "\\", "/"), "/")
    IN  \E i \in 1..Len(segments) : segments[i] = <<".", ".">>

AbsoluteInput(p) == p # <<>> /\ Replace(p, "\\", "/")[1] = "/"

Escaping(p) == Traversing(p) \/ AbsoluteInput(p)

\* the upload has an escaping filename, and save_files gets to the first such
\* entry (no earlier entry makes the operating system refuse a write)
FirstEscaping(files) ==
    CHOOSE i \in 1..Len(files) :
        /\ Escaping(files[i].filename)
        /\ \A j \in 1..(i - 1) : ~Escaping(files[j].filename)

\* C1 (read side): a thumbnail request for an existing dataset with a path that
\* has a ".." segment or is absolute is answered 400 and names no file.
C1_ReadSide ==
    (/\ req.op = "thumbnail"
     /\ \E d \in db : d.partner_id = req.partner_id /\ d.name = req.dataset_name
     /\ Escaping(req.path))
    => (resp.status = 400 /\ resp.kind = "InvalidPath")

\* C1 (upload side): an upload with a filename that has a ".." segment or is
\* absolute registers nothing, is answered 400 when the loop gets to that entry,
\* and writes no file but those of the entries before it, all below the root.
C1_UploadSide ==
    [][(/\ UploadStep
        /\ SingleSegment(req'.partner_id) /\ SingleSegment(req'.dataset_name)
        /\ \E i \in 1..Len(req'.files) : Escaping(req'.files[i].filename))
       =>
        LET root == StorageRoot(req'.partner_id, req'.dataset_name)
            i == FirstEscaping(req'.files)
            before == SubSeq(req'.files, 1, i - 1)
            made == MkdirP(fs, BASE_PATH \o <<req'.partner_id, req'.dataset_name>>)
        IN  /\ db' = db
            /\ resp'.status # 200
            /\ (made.ok /\ SaveLoop(made.val, BASE_PATH \o <<req'.partner_id,
                                    req'.dataset_name>>, before, 1).ok)
                  => resp'.status = 400
            /\ \A q \in DOMAIN fs' :
                  (q \notin DOMAIN fs \/ fs'[q] # fs[q]) =>
                      \/ fs'[q].kind = "dir" /\ (IsPrefix(q, root) \/ IsPrefix(root, q))
                      \/ /\ IsPrefix(root, q)
                         /\ RelativeTo(q, root) \in NonHiddenPaths(before)
      ]_vars

\* C1: both sides
C1_EscapingPathsRejected == []C1_ReadSide /\ C1_UploadSide

C1_Witness ==
    /\ req.op = "thumbnail"
    /\ req.path = <<".", ".", "/">>
    /\ resp.status = 400
    /\ \E q \in DOMAIN fs : fs[q].kind = "file"

-----------------------------------------------------------------------------
(* C2 *)

\* the canonical location of the path a thumbnail request names
CanonicalTarget ==
    Resolve(fs, Abs(BASE_PATH \o <<req.partner_id, req.dataset_name>>)
                    \o DenotedPath(req.path))

WithinRoot(loc) == IsPrefix(Resolve(fs, BASE_PATH \o <<req.partner_id, req.dataset_name>>), loc)

\* C2: whenever path resolution accepts the path of a thumbnail request, the
\* canonical location of root/path is the root or below it, and the file served
\* is that location; a path whose canonical location is outside the root is
\* answered 400 (invalid path), also when a symbolic link of the tree leads
\* there.
C2_ResolvedWithinRoot ==
    (/\ req.op = "thumbnail"
     /\ req.path # <<>>
     /\ \E d \in db : d.partner_id = req.partner_id /\ d.name = req.dataset_name)
    => /\ resp.kind # "InvalidPath" => WithinRoot(CanonicalTarget)
       /\ resp.status = 200 =>
             /\ resp.body.full = CanonicalTarget
             /\ WithinRoot(resp.body.full)
             /\ fs[resp.body.full].kind = "file"
       /\ ~WithinRoot(CanonicalTarget) => (resp.status = 400 /\ resp.kind = "InvalidPath")

\* a path with no ".." and not absolute is refused because a link takes it outside
C2_Witness ==
    /\ req.op = "thumbnail"
    /\ req.path = <<"l", "/", "x">>
    /\ fs[Append(GuardRoot, S_l)] = Link(Outside)
    /\ browse_safe_relpath(req.path).ok
    /\ IsFile(fs, Append(Outside, S_x))
    /\ resp.status = 400

-----------------------------------------------------------------------------
(* Vocabulary of the properties about trees and previews *)

\* the number of nodes below a node
RECURSIVE CountNodes(_)
RECURSIVE CountForest(_)
CountNodes(node) == Len(node.children) + CountForest(node.children)
CountForest(nodes) ==
    IF nodes = <<>> THEN 0 ELSE CountNodes(nodes[1]) + CountForest(Tail(nodes))

\* the nodes of a tree, the root included
RECURSIVE Nodes(_)
Nodes(node) == {node} \cup UNION {Nodes(node.children[i]) : i \in 1..Len(node.children)}

\* the location of the root of the dataset a response is about
RootOf(dataset_id) ==
    LET row == CHOOSE d \in db : d.id = dataset_id
    IN  Resolve(fs, PosixParts(row.path))

\* the entries of the disk below a location, relative to it
EntriesBelow(f, loc) ==
    {RelativeTo(q, loc) : q \in {x \in DOMAIN f : IsPrefix(loc, x) /\ x # loc}}

\* the entries a walk without an entry cap shows: not flagged, within the depth
VisibleEntries(f, loc) ==
    {r \in EntriesBelow(f, loc) : ~is_hidden_or_metadata_path(r) /\ Len(r) <= max_depth}

Min(a, b) == IF a < b THEN a ELSE b

TreeServed == req.op = "tree" /\ resp.status = 200

\* C6, as amended: the counter never exceeds max_entries and equals the number
\* of non-root nodes of the tree; it is the number of visible entries capped at
\* max_entries, and truncated is true exactly when a visible entry was left out
\* (a tree with exactly max_entries visible entries is not marked truncated).
C6_EntryCap ==
    TreeServed =>
        LET b == resp.body
            visible == Cardinality(VisibleEntries(fs, RootOf(b.dataset_id)))
        IN  /\ b.entries_returned <= max_entries
            /\ b.entries_returned = CountNodes(b.tree)
            /\ b.entries_returned = Min(visible, max_entries)
            /\ b.truncated = (visible > max_entries)

\* more visible entries than the cap: exactly max_entries are returned, truncated
C6_Witness ==
    /\ TreeServed
    /\ Cardinality(VisibleEntries(fs, RootOf(resp.body.dataset_id))) > max_entries
    /\ resp.body.entries_returned = max_entries
    /\ resp.body.truncated

\* C6 as stated: the counter never exceeds max_entries, equals the number of
\* non-root nodes, and once it reaches max_entries the result is marked
\* truncated.
C6_AsStated ==
    TreeServed =>
        LET b == resp.body
        IN  /\ b.entries_returned <= max_entries
            /\ b.entries_returned = CountNodes(b.tree)
            /\ b.entries_returned = max_entries => b.truncated

\* a node's place in the order: directories first, then by lower-cased name
NodeKeyLeq(a, b) ==
    \/ a.type = "directory" /\ b.type = "file"
    \/ a.type = b.type /\ StrLeq(Lower(a.name), Lower(b.name))

\* the entry `name` of the directory at loc, as a node would describe it
EntryKey(f, loc, name) ==
    [type |-> IF f[Append(loc, name)].kind = "dir" THEN "directory" ELSE "file",
     name |-> name]

\* C7: in every directory node of a served tree the children are ordered
\* directories first and then case-insensitively by name, and the children are
\* a prefix of the directory's not flagged entries in that order: every entry
\* left out sorts after every child.
C7_ChildrenSorted ==
    TreeServed =>
        \A n \in Nodes(resp.body.tree) :
            n.type = "directory" =>
                LET kids == n.children
                    loc == RootOf(resp.body.dataset_id) \o PosixParts(n.path)
                    rel == PosixParts(n.path)
                    listed == {name \in DirEntries(fs, loc) :
                                  ~is_hidden_or_metadata_path(Append(rel, name))}
                    shown == {kids[i].name : i \in 1..Len(kids)}
                IN  /\ \A i, j \in 1..Len(kids) : i < j => NodeKeyLeq(kids[i], kids[j])
                    /\ \A i, j \in 1..Len(kids) : i # j => kids[i].name # kids[j].name
                    /\ shown \subseteq listed
                    /\ \A i \in 1..Len(kids) : kids[i].type = EntryKey(fs, loc, kids[i].name).type
                    /\ \A name \in listed \ shown, i \in 1..Len(kids) :
                          NodeKeyLeq(kids[i], EntryKey(fs, loc, name))

\* the specification's example: b.txt, A_dir, a.txt (here B.txt) listed as
\* A_dir, a.txt, B.txt
C7_Witness ==
    /\ TreeServed
    /\ LET kids == resp.body.tree.children
       IN  /\ Len(kids) = 3
           /\ kids[1].name = <<"A", "_", "d", "i", "r">> /\ kids[1].type = "directory"
           /\ kids[2].name = S_a_txt
           /\ kids[3].name = S_B_txt

PreviewServed == req.op = "preview" /\ resp.status = 200

\* the entries of a sequence of records with a given path
WithPath(entries, path) == {i \in 1..Len(entries) : entries[i].path = path}

\* the error entries of one scan
ErrorsOf(type) == SelectSeq(resp.body.errors, LAMBDA e : e.type = type)

\* C8: in a served preview every selected tabular file has exactly one entry,
\* among the tabular previews when its decoder returned and among the errors
\* when it exited non-zero, timed out or printed no JSON, whatever happened to
\* the other files;
\* likewise every selected image; and there is no entry besides these.
C8_OneEntryPerFile ==
    PreviewServed =>
        LET po == req.parquet_outcome
            io == req.image_outcome
            root == RootOf(resp.body.dataset_id)
        IN  /\ DOMAIN po = {r \in EntriesBelow(fs, root) :
                               EndsWith(PathName(r), S_parquet_ext)}
            /\ resp.body.parquet.count = Cardinality(DOMAIN po)
            /\ resp.body.images.count = Cardinality(DOMAIN io)
            /\ \A f \in DOMAIN po :
                  LET ok == po[f] \in {"rows", "no_output"}
                  IN  /\ Cardinality(WithPath(resp.body.parquet.previews, PathStr(f)))
                            = IF ok THEN 1 ELSE 0
                      /\ Cardinality(WithPath(ErrorsOf("parquet"), PathStr(f)))
                            = IF ok THEN 0 ELSE 1
            /\ \A f \in DOMAIN io :
                  LET ok == io[f] = "image"
                  IN  /\ Cardinality(WithPath(resp.body.images.previews, PathStr(f)))
                            = IF ok THEN 1 ELSE 0
                      /\ Cardinality(WithPath(ErrorsOf("image"), PathStr(f)))
                            = IF ok THEN 0 ELSE 1
            /\ Len(resp.body.parquet.previews) + Len(ErrorsOf("parquet"))
                  = Cardinality(DOMAIN po)
            /\ Len(resp.body.images.previews) + Len(ErrorsOf("image"))
                  = Cardinality(DOMAIN io)
            /\ Len(resp.body.errors) = Len(ErrorsOf("parquet")) + Len(ErrorsOf("image"))

\* one tabular file times out and the next one is still previewed
C8_Witness ==
    /\ PreviewServed
    /\ req.parquet_outcome = (PosixParts(S_sub_d_t_parquet) :> "timeout"
                              @@ PosixParts(S_sub_t_parquet) :> "rows")
    /\ Len(resp.body.errors) = 1
    /\ Len(resp.body.parquet.previews) = 1
    /\ resp.body.parquet.previews[1].path = S_sub_t_parquet

\* C10: no file whose root-relative path the predicate flags is written by an
\* upload, counted in file_count or total_size_bytes, emitted or counted by the
\* tree, or listed in a preview or in its errors.
C10_HiddenNeverSurfaced ==
    /\ req.op = "upload" /\ resp.status = 200 =>
          LET root == StorageRoot(req.partner_id, req.dataset_name)
              row == CHOOSE d \in db : d.id = resp.body.dataset_id
              counted == {r \in FilesBelow(fs, root) : ~is_hidden_or_metadata_path(r)}
          IN  /\ \A i \in 1..Len(req.files) :
                    is_hidden_or_metadata_path(DenotedPath(req.files[i].filename))
                        => DenotedPath(req.files[i].filename) \notin FilesBelow(fs, root)
              /\ row.file_count = Cardinality(counted)
              /\ row.total_size_bytes = SumSizes(fs, root, counted)
    /\ TreeServed =>
          /\ \A n \in Nodes(resp.body.tree) : ~is_hidden_or_metadata_path(PosixParts(n.path))
          /\ resp.body.entries_returned <=
                Cardinality({r \in EntriesBelow(fs, RootOf(resp.body.dataset_id)) :
                                ~is_hidden_or_metadata_path(r)})
    /\ PreviewServed =>
          /\ \A i \in 1..Len(resp.body.parquet.previews) :
                ~is_hidden_or_metadata_path(PosixParts(resp.body.parquet.previews[i].path))
          /\ \A i \in 1..Len(resp.body.images.previews) :
                ~is_hidden_or_metadata_path(PosixParts(resp.body.images.previews[i].path))
          /\ \A i \in 1..Len(resp.body.errors) :
                ~is_hidden_or_metadata_path(PosixParts(resp.body.errors[i].path))


-----------------------------------------------------------------------------
(* C11: empty paths and empty segments                                      *)

\* the path is empty, or has an empty segment once "\" is written "/"
\* (a doubled separator, or a leading or trailing one)
EmptySegment(p) ==
    \/ p = <<>>
    \/ LET segments == Split(Replace(p, "\\", "/"), "/")
       IN  \E i \in 1..Len(segments) : segments[i] = <<>>

\* C11: a path that is empty or has an empty segment is rejected with the
\* invalid-path error: a thumbnail request naming such a path in an existing
\* dataset is answered 400 InvalidPath, and an upload with such a filename is
\* answered 400 and registers no dataset.  (A thumbnail request with no path at
\* all asks for a random image and is left out.)
C11_EmptySegmentsRejected ==
    /\ (/\ req.op = "thumbnail"
        /\ \E d \in db : d.partner_id = req.partner_id /\ d.name = req.dataset_name
        /\ req.path # <<>>
        /\ EmptySegment(req.path))
       => (resp.status = 400 /\ resp.kind = "InvalidPath")
    /\ (/\ req.op = "upload"
        /\ SingleSegment(req.partner_id) /\ SingleSegment(req.dataset_name)
        /\ \E i \in 1..Len(req.files) : EmptySegment(req.files[i].filename))
       => (resp.status = 400 /\ resp.kind = "ValueError" /\ db = {})


-----------------------------------------------------------------------------
(* C12: the manifest of an upload into a root that already holds files      *)

\* the total size of the files at the relative paths rels below a location
RECURSIVE DiskSize(_, _, _)
DiskSize(f, loc, rels) ==
    IF rels = {} THEN 0
    ELSE LET r == CHOOSE x \in rels : TRUE
         IN  f[loc \o r].size + DiskSize(f, loc, rels \ {r})

\* the last entry of an upload that denotes the relative path r
LastSent(files, r) ==
    CHOOSE i \in 1..Len(files) :
        /\ DenotedPath(files[i].filename) = r
        /\ \A j \in (i + 1)..Len(files) : DenotedPath(files[j].filename) # r

\* C12: the file_count and total_size_bytes an accepted upload registers are
\* the number and the total size of the non-hidden files below the root once
\* the upload has written: a path sent again holds the content sent last and is
\* counted once, and a file an earlier upload left there that this upload did
\* not send is still there, unchanged, and counted.
C12_ManifestIsDiskState ==
    [][(UploadStep /\ resp'.status = 200)
       =>
        LET root == StorageRoot(req'.partner_id, req'.dataset_name)
            sent == NonHiddenPaths(req'.files)
            kept == {r \in FilesBelow(fs, root) : ~is_hidden_or_metadata_path(r)} \ sent
            on_disk == {r \in FilesBelow(fs', root) : ~is_hidden_or_metadata_path(r)}
        IN  /\ on_disk = sent \cup kept
            /\ \A r \in sent : fs'[root \o r].size = req'.files[LastSent(req'.files, r)].size
            /\ \A r \in kept : fs'[root \o r] = fs[root \o r]
            /\ \E row \in db' \ db :
                  /\ db' = db \cup {row}
                  /\ row.id = resp'.body.dataset_id
                  /\ row.file_count = Cardinality(on_disk)
                  /\ row.total_size_bytes = DiskSize(fs', root, on_disk)
      ]_vars

\* a second upload into the same root sends a.txt again with other content
\* while sub/b.txt is left from the first: two files, sizes 2 and 1
C12_Witness ==
    /\ req.op = "upload"
    /\ req.files = <<UploadFile(S_a_txt, 2)>>
    /\ resp.status = 200
    /\ Cardinality(db) = 2
    /\ FilesBelow(fs, StorageRoot(req.partner_id, req.dataset_name))
          = {<<S_a_txt>>, <<S_sub, S_b_txt>>}
    /\ \E row \in db :
          /\ row.id = resp.body.dataset_id
          /\ row.file_count = 2
          /\ row.total_size_bytes = 3

=============================================================================
